---- MODULE Spec2Model ----
(***************************************************************************)
(* Model of package logger (src/logger.go): a process-wide leveled logger  *)
(* with a console sink and an optional append-mode file sink.              *)
(*                                                                         *)
(* The package's globals are the model's variables; the operating system   *)
(* (open file descriptions, file contents, standard output) is modelled    *)
(* beside them so that leaks, double closes and appended lines can be      *)
(* observed.                                                               *)
(***************************************************************************)
EXTENDS Integers, Sequences, FiniteSets, TLC

(* ------------------------------------------------------------------ *)
(* Program constants                                                   *)
(* ------------------------------------------------------------------ *)

\* logger.go:16-22  const ( DEBUG LogLevel = iota; INFO; ERROR; SUCCESS; FAIL )
DEBUG == 0
INFO == 1
ERROR == 2
SUCCESS == 3
FAIL == 4

Levels == {DEBUG, INFO, ERROR, SUCCESS, FAIL}

\* logger.go:25-31  ANSI colour constants
Reset == "ESC[0m"
Red == "ESC[31m"
Green == "ESC[32m"
Yellow == "ESC[33m"
Blue == "ESC[34m"

\* nil pointer (*log.Logger, *os.File)
Nil == 0

\* logger.go:60  os.Stdout, file descriptor 1
Stdout == 1

(* ------------------------------------------------------------------ *)
(* Bounds of the model                                                 *)
(* ------------------------------------------------------------------ *)

\* successful os.OpenFile calls in one run
MaxOpens == 2
\* LogMessage calls in one run
MaxLogs == 2
\* goroutines calling Close concurrently (SpecClose)
MaxClosers == 3
\* the same two for SpecLevels
MaxLevelOpens == 1
MaxLevelLogs == 1
\* the same two for SpecFormat
MaxFormatOpens == 1
MaxFormatLogs == 1
MaxLoggers == 2

(* ------------------------------------------------------------------ *)
(* Inputs                                                              *)
(* ------------------------------------------------------------------ *)

Path(dir, name) == [dir |-> dir, name |-> name]

\* filepath.Join(dir, "out.log"), logger.go:88
DefaultPath(dir) == Path(dir, "out.log")

\* paths a caller passes to SetLogFile
UserPaths == {Path("logs", "app.log"), Path("wd", "out.log")}

\* every path the runs of this model can open
AllPaths == UserPaths \cup {DefaultPath("wd"), DefaultPath("exedir")}

\* an operand of a format: its Go type and its printed value
Arg(type, val) == [type |-> type, val |-> val]

(* ------------------------------------------------------------------ *)
(* State                                                               *)
(* ------------------------------------------------------------------ *)

VARIABLES
    fileLogger,     \* logger.go:34  *log.Logger: Nil or the handle it writes to
    consoleLogger,  \* logger.go:35  *log.Logger: Nil or Stdout
    fileLevel,      \* logger.go:36
    consoleLevel,   \* logger.go:37
    logFile,        \* logger.go:38  *os.File: Nil or a handle
    closeOnce,      \* logger.go:39  sync.Once: TRUE once Do has run its function
    handles,        \* OS: every file opened so far, [path, open, closes]
    files,          \* OS: path -> NoFile or its lines
    console,        \* OS: lines written to standard output
    ret,            \* the last call and what it returned
    panicked,       \* a call dereferenced a nil logger
    nLogs,          \* LogMessage calls so far
    pc,             \* where each goroutine calling Close stands
    onceLock,       \* closeOnce's mutex: Nil or the goroutine holding it
    logpc           \* the steps each goroutine calling LogMessage has taken

vars == <<fileLogger, consoleLogger, fileLevel, consoleLevel, logFile, closeOnce,
          handles, files, console, ret, panicked, nLogs, pc, onceLock, logpc>>

\* the program and its environment as one value, so that calls compose
Cur ==
    [fileLogger |-> fileLogger, consoleLogger |-> consoleLogger,
     fileLevel |-> fileLevel, consoleLevel |-> consoleLevel,
     logFile |-> logFile, closeOnce |-> closeOnce,
     handles |-> handles, files |-> files, console |-> console,
     err |-> ret.err, panicked |-> panicked]

\* a path that holds no file yet
NoFile == [exists |-> FALSE, lines |-> <<>>]

IsPrefix(a, b) == Len(a) <= Len(b) /\ SubSeq(b, 1, Len(a)) = a

(* ------------------------------------------------------------------ *)
(* The operating system                                                *)
(* ------------------------------------------------------------------ *)

\* an open with O_TRUNC in its flags
OpenFileTrunc(fs, path) == [fs EXCEPT ![path] = [exists |-> TRUE, lines |-> <<>>]]

\* os.OpenFile(path, O_CREATE|O_WRONLY|O_APPEND, 0644) on success: the file is
\* created when absent and is never truncated (logger.go:72)
OpenFile(fs, path) == [fs EXCEPT ![path].exists = TRUE]

\* (*os.File).Write on handle h: O_APPEND appends the whole buffer in one write;
\* a closed handle returns an error and writes nothing
Write(s, h, line) ==
    IF s.handles[h].open
    THEN [s EXCEPT !.files[s.handles[h].path].lines = Append(@, line)]
    ELSE s

\* (*os.File).Close on handle h
FileClose(s, h) ==
    [s EXCEPT !.handles[h].open = FALSE, !.handles[h].closes = @ + 1]

(* ------------------------------------------------------------------ *)
(* Formatting                                                          *)
(* ------------------------------------------------------------------ *)

Verbs == {"%d", "%s", "%v"}

\* fmt: one operand under one verb
FormatArg(verb, arg) ==
    CASE verb = "%v" -> arg.val
      [] verb = "%d" -> IF arg.type = "int" THEN arg.val
                        ELSE "%!d(" \o arg.type \o "=" \o arg.val \o ")"
      [] verb = "%s" -> IF arg.type = "string" THEN arg.val
                        ELSE "%!s(" \o arg.type \o "=" \o arg.val \o ")"

Missing(verb) ==
    CASE verb = "%v" -> "%!v(MISSING)"
      [] verb = "%d" -> "%!d(MISSING)"
      [] verb = "%s" -> "%!s(MISSING)"

\* fmt: the operands no verb consumed, from the a-th on (a <= Len(args))
RECURSIVE Extra(_, _)
Extra(args, a) ==
    <<args[a].type \o "=" \o args[a].val>>
        \o (IF a < Len(args) THEN <<", ">> \o Extra(args, a + 1) ELSE <<>>)

RECURSIVE SprintfFrom(_, _, _, _)
SprintfFrom(format, args, i, a) ==
    IF i > Len(format)
    THEN IF a <= Len(args) THEN <<"%!(EXTRA ">> \o Extra(args, a) \o <<")">> ELSE <<>>
    ELSE LET t == format[i] IN
         IF t \in Verbs
         THEN IF a <= Len(args)
              THEN <<FormatArg(t, args[a])>> \o SprintfFrom(format, args, i + 1, a + 1)
              ELSE <<Missing(t)>> \o SprintfFrom(format, args, i + 1, a)
         ELSE IF t = "%%" THEN <<"%">> \o SprintfFrom(format, args, i + 1, a)
         ELSE IF t = "%" THEN <<"%!(NOVERB)">> \o SprintfFrom(format, args, i + 1, a)
         ELSE <<t>> \o SprintfFrom(format, args, i + 1, a)

\* fmt.Sprintf(format, args...)
Sprintf(format, args) == SprintfFrom(format, args, 1, 1)

\* (*log.Logger).Printf with flags Ldate|Ltime|Lmicroseconds and empty prefix:
\* the timestamp header, the text, and a newline unless the text ends in one
LoggerLine(text) ==
    <<"<timestamp> ">> \o text
        \o (IF Len(text) > 0 /\ text[Len(text)] = "\n" THEN <<>> ELSE <<"\n">>)

(* ------------------------------------------------------------------ *)
(* The package's functions, as functions of the state                  *)
(* ------------------------------------------------------------------ *)

\* a threshold test that leaves out the threshold's own level
shouldLogStrict(msgLevel, minLevel) == msgLevel > minLevel

\* logger.go:153-155
shouldLog(msgLevel, minLevel) == msgLevel >= minLevel

\* logger.go:135-150
levelToString(level) ==
    CASE level = DEBUG -> "DEBUG"
      [] level = INFO -> "INFO"
      [] level = ERROR -> "ERROR"
      [] level = SUCCESS -> "SUCCESS"
      [] level = FAIL -> "FAIL"
      [] OTHER -> "UNKNOWN"

\* a colour switch whose ERROR case leaves out FAIL
levelColorNoFail(level) ==
    CASE level = DEBUG -> Yellow
      [] level = INFO -> Blue
      [] level = ERROR -> Red
      [] level = SUCCESS -> Green
      [] OTHER -> Yellow

\* logger.go:117-129  the colour switch of LogMessage
levelColor(level) ==
    CASE level = DEBUG -> Yellow
      [] level = INFO -> Blue
      [] level \in {ERROR, FAIL} -> Red
      [] level = SUCCESS -> Green
      [] OTHER -> Yellow

\* logger.go:158-168  env: what os.Executable and os.Getwd answer
getWorkingDir(env) ==
    IF env.exe = "err" THEN [err |-> TRUE, dir |-> ""]
    ELSE IF env.exe = "go-build"
         THEN IF env.wd = "err" THEN [err |-> TRUE, dir |-> ""]
              ELSE [err |-> FALSE, dir |-> "wd"]
         ELSE [err |-> FALSE, dir |-> "exedir"]

\* a SetConsoleLevel that stores the level and builds no logger
SetConsoleLevelOnly(s, level) ==
    [s EXCEPT !.consoleLevel = level, !.err = FALSE]

\* logger.go:58-61
SetConsoleLevel(s, level) ==
    [s EXCEPT !.consoleLevel = level, !.consoleLogger = Stdout, !.err = FALSE]

\* a SetFileLevel that also builds the console logger
SetFileLevelInitConsole(s, level) ==
    [s EXCEPT !.fileLevel = level, !.consoleLogger = Stdout, !.err = FALSE]

\* logger.go:64-66
SetFileLevel(s, level) ==
    [s EXCEPT !.fileLevel = level, !.err = FALSE]

\* a SetLogFile that builds the file logger only when there is none yet
SetLogFileKeepLogger(s, path, ok) ==
    IF ~ok
    THEN [s EXCEPT !.logFile = Nil, !.err = TRUE]
    ELSE LET h == Len(s.handles) + 1 IN
         [s EXCEPT !.handles = Append(@, [path |-> path, open |-> TRUE, closes |-> 0]),
                   !.files = OpenFile(@, path),
                   !.logFile = h,
                   !.fileLogger = IF @ = Nil THEN h ELSE @,
                   !.err = FALSE]

\* logger.go:70-78  ok: whether os.OpenFile can open the path. The tuple
\* assignment of line 72 stores the returned *os.File, nil on failure, before
\* the error is looked at.
SetLogFile(s, path, ok) ==
    IF ~ok
    THEN [s EXCEPT !.logFile = Nil, !.err = TRUE]
    ELSE LET h == Len(s.handles) + 1 IN
         [s EXCEPT !.handles = Append(@, [path |-> path, open |-> TRUE, closes |-> 0]),
                   !.files = OpenFile(@, path),
                   !.logFile = h,
                   !.fileLogger = h,
                   !.err = FALSE]

\* logger.go:83-89
InitDefaultLogFile(s, env, ok) ==
    LET wd == getWorkingDir(env) IN
    IF wd.err THEN [s EXCEPT !.err = TRUE]
    ELSE SetLogFile(s, DefaultPath(wd.dir), ok)

\* a SetupLogging that opens the file first and gives up on its error
SetupLoggingFileFirst(s, consoleLogLevel, fileLogLevel, env, ok) ==
    LET t == InitDefaultLogFile(s, env, ok) IN
    IF t.err THEN t
    ELSE [SetFileLevel(SetConsoleLevel(t, consoleLogLevel), fileLogLevel) EXCEPT !.err = t.err]

\* logger.go:51-55
SetupLogging(s, consoleLogLevel, fileLogLevel, env, ok) ==
    InitDefaultLogFile(SetFileLevel(SetConsoleLevel(s, consoleLogLevel), fileLogLevel),
                       env, ok)

\* logger.go:93-97  the function handed to closeOnce.Do
closeFunc(s) ==
    IF s.logFile # Nil THEN FileClose(s, s.logFile) ELSE s

\* a Close without the once guard
CloseNoOnce(s) ==
    [closeFunc(s) EXCEPT !.closeOnce = TRUE, !.err = FALSE]

\* logger.go:92-98  sync.Once.Do runs its function on the first call only
Close(s) ==
    IF s.closeOnce THEN [s EXCEPT !.err = FALSE]
    ELSE [closeFunc(s) EXCEPT !.closeOnce = TRUE, !.err = FALSE]

\* a rendering that formats also when no operand is given
renderMessageAlways(format, args) == Sprintf(format, args)

\* logger.go:103-108
renderMessage(format, args) ==
    IF Len(args) > 0 THEN Sprintf(format, args) ELSE format

\* logger.go:113  the text handed to fileLogger.Printf
fileText(level, message) ==
    <<"| ", levelToString(level), " | ">> \o message

\* logger.go:130  the text handed to consoleLogger.Printf
consoleText(level, message) ==
    <<levelColor(level), "| ", levelToString(level), " |", Reset, " ">> \o message

\* a file branch without the nil test: Printf on a nil *log.Logger panics
logToFileNoNilCheck(s, level, message) ==
    IF shouldLog(level, s.fileLevel)
    THEN IF s.fileLogger = Nil THEN [s EXCEPT !.panicked = TRUE]
         ELSE Write(s, s.fileLogger, LoggerLine(fileText(level, message)))
    ELSE s

\* logger.go:112-114
logToFile(s, level, message) ==
    IF shouldLog(level, s.fileLevel) /\ s.fileLogger # Nil
    THEN Write(s, s.fileLogger, LoggerLine(fileText(level, message)))
    ELSE s

\* logger.go:116-131
logToConsole(s, level, message) ==
    IF shouldLog(level, s.consoleLevel) /\ s.consoleLogger # Nil
    THEN [s EXCEPT !.console = Append(@, LoggerLine(consoleText(level, message)))]
    ELSE s

\* a LogMessage whose console branch is the else of its file branch
LogMessageElseIf(s, format, level, args) ==
    LET message == renderMessage(format, args) IN
    IF shouldLog(level, s.fileLevel) /\ s.fileLogger # Nil
    THEN [logToFile(s, level, message) EXCEPT !.err = FALSE]
    ELSE [logToConsole(s, level, message) EXCEPT !.err = FALSE]

\* a LogMessage that returns early when the file sink's handle is closed
LogMessageStopOnWriteError(s, format, level, args) ==
    LET message == renderMessage(format, args) IN
    IF /\ shouldLog(level, s.fileLevel)
       /\ s.fileLogger # Nil
       /\ ~s.handles[s.fileLogger].open
    THEN [s EXCEPT !.err = FALSE]
    ELSE [logToConsole(logToFile(s, level, message), level, message) EXCEPT !.err = FALSE]

\* logger.go:102-132
LogMessage(s, format, level, args) ==
    LET message == renderMessage(format, args) IN
    [logToConsole(logToFile(s, level, message), level, message) EXCEPT !.err = FALSE]

\* logger.go:171
Debug(s, format, args) == LogMessage(s, format, DEBUG, args)

\* logger.go:174
Info(s, format, args) == LogMessage(s, format, INFO, args)

\* logger.go:177
Error(s, format, args) == LogMessage(s, format, ERROR, args)

\* logger.go:180
Success(s, format, args) == LogMessage(s, format, SUCCESS, args)

\* logger.go:183
Fail(s, format, args) == LogMessage(s, format, FAIL, args)

(* ------------------------------------------------------------------ *)
(* A single caller: one action per exported function                   *)
(* ------------------------------------------------------------------ *)

\* the state after the call op has returned t
Returns(op, t) ==
    /\ fileLogger' = t.fileLogger
    /\ consoleLogger' = t.consoleLogger
    /\ fileLevel' = t.fileLevel
    /\ consoleLevel' = t.consoleLevel
    /\ logFile' = t.logFile
    /\ closeOnce' = t.closeOnce
    /\ handles' = t.handles
    /\ files' = t.files
    /\ console' = t.console
    /\ panicked' = t.panicked
    /\ ret' = [op |-> op, err |-> t.err]

Closers == 1 .. MaxClosers

Loggers == 1 .. MaxLoggers

\* no goroutine is inside Close: the single caller has the package to itself
Running == ~panicked /\ \A g \in Closers : pc[g] = "idle"

\* package variables whose file threshold starts at INFO
InitFileLevelInfo ==
    /\ fileLogger = Nil
    /\ consoleLogger = Nil
    /\ fileLevel = INFO
    /\ consoleLevel = 0
    /\ logFile = Nil
    /\ closeOnce = FALSE
    /\ handles = <<>>
    /\ files = [p \in AllPaths |-> NoFile]
    /\ console = <<>>
    /\ ret = [op |-> "init", err |-> FALSE]
    /\ panicked = FALSE
    /\ nLogs = 0
    /\ pc = [g \in Closers |-> "idle"]
    /\ onceLock = Nil
    /\ logpc = [g \in Loggers |-> 0]

\* logger.go:33-40  the zero values of the package's variables
Init ==
    /\ fileLogger = Nil
    /\ consoleLogger = Nil
    /\ fileLevel = 0
    /\ consoleLevel = 0
    /\ logFile = Nil
    /\ closeOnce = FALSE
    /\ handles = <<>>
    /\ files = [p \in AllPaths |-> NoFile]
    /\ console = <<>>
    /\ ret = [op |-> "init", err |-> FALSE]
    /\ panicked = FALSE
    /\ nLogs = 0
    /\ pc = [g \in Closers |-> "idle"]
    /\ onceLock = Nil
    /\ logpc = [g \in Loggers |-> 0]

CallSetConsoleLevel(level) ==
    /\ Running
    /\ Returns("SetConsoleLevel", SetConsoleLevel(Cur, level))
    /\ UNCHANGED <<nLogs, pc, onceLock, logpc>>

CallSetFileLevel(level) ==
    /\ Running
    /\ Returns("SetFileLevel", SetFileLevel(Cur, level))
    /\ UNCHANGED <<nLogs, pc, onceLock, logpc>>

CallSetLogFile(path, ok) ==
    /\ Running
    /\ Returns("SetLogFile", SetLogFile(Cur, path, ok))
    /\ UNCHANGED <<nLogs, pc, onceLock, logpc>>

CallInitDefaultLogFile(env, ok) ==
    /\ Running
    /\ Returns("InitDefaultLogFile", InitDefaultLogFile(Cur, env, ok))
    /\ UNCHANGED <<nLogs, pc, onceLock, logpc>>

CallSetupLogging(c, f, env, ok) ==
    /\ Running
    /\ Returns("SetupLogging", SetupLogging(Cur, c, f, env, ok))
    /\ UNCHANGED <<nLogs, pc, onceLock, logpc>>

CallClose ==
    /\ Running
    /\ Returns("Close", Close(Cur))
    /\ UNCHANGED <<nLogs, pc, onceLock, logpc>>

CallLogMessage(format, level, args) ==
    /\ Running
    /\ Returns("LogMessage", LogMessage(Cur, format, level, args))
    /\ nLogs' = nLogs + 1
    /\ UNCHANGED <<pc, onceLock, logpc>>

CallDebug(format, args) ==
    /\ Running
    /\ Returns("Debug", Debug(Cur, format, args))
    /\ nLogs' = nLogs + 1
    /\ UNCHANGED <<pc, onceLock, logpc>>

CallInfo(format, args) ==
    /\ Running
    /\ Returns("Info", Info(Cur, format, args))
    /\ nLogs' = nLogs + 1
    /\ UNCHANGED <<pc, onceLock, logpc>>

CallError(format, args) ==
    /\ Running
    /\ Returns("Error", Error(Cur, format, args))
    /\ nLogs' = nLogs + 1
    /\ UNCHANGED <<pc, onceLock, logpc>>

CallSuccess(format, args) ==
    /\ Running
    /\ Returns("Success", Success(Cur, format, args))
    /\ nLogs' = nLogs + 1
    /\ UNCHANGED <<pc, onceLock, logpc>>

CallFail(format, args) ==
    /\ Running
    /\ Returns("Fail", Fail(Cur, format, args))
    /\ nLogs' = nLogs + 1
    /\ UNCHANGED <<pc, onceLock, logpc>>

(* ------------------------------------------------------------------ *)
(* Spec: the life cycle of the file sink, every function, few levels   *)
(* ------------------------------------------------------------------ *)

LifeConsoleLevels == {INFO}
LifeFileLevels == {FAIL}
LifeLogLevels == {INFO, FAIL}
LifeEnvs ==
    {[exe |-> "err", wd |-> "ok"], [exe |-> "go-build", wd |-> "err"],
     [exe |-> "go-build", wd |-> "ok"]}
LifeTemplates == {<<"x=", "%d">>}
LifeArgLists == {<<Arg("int", "42")>>}

Next ==
    \/ \E level \in LifeConsoleLevels : CallSetConsoleLevel(level)
    \/ \E level \in LifeFileLevels : CallSetFileLevel(level)
    \/ \E path \in UserPaths, ok \in BOOLEAN :
          /\ ok => Len(handles) < MaxOpens
          /\ CallSetLogFile(path, ok)
    \/ \E env \in LifeEnvs, ok \in BOOLEAN :
          /\ ok => Len(handles) < MaxOpens
          /\ CallInitDefaultLogFile(env, ok)
    \/ \E c \in LifeConsoleLevels, f \in LifeFileLevels, env \in LifeEnvs, ok \in BOOLEAN :
          /\ ok => Len(handles) < MaxOpens
          /\ CallSetupLogging(c, f, env, ok)
    \/ CallClose
    \/ \E format \in LifeTemplates, level \in LifeLogLevels, args \in LifeArgLists :
          /\ nLogs < MaxLogs
          /\ CallLogMessage(format, level, args)

Spec == Init /\ [][Next]_vars

(* ------------------------------------------------------------------ *)
(* SpecLevels: threshold filtering, every threshold and every level    *)
(* ------------------------------------------------------------------ *)

LevelPaths == {Path("logs", "app.log")}
LevelTemplates == {<<"started">>}
LevelArgLists == {<<>>}

NextLevels ==
    \/ \E level \in Levels : CallSetConsoleLevel(level)
    \/ \E level \in Levels : CallSetFileLevel(level)
    \/ \E ok \in BOOLEAN :
          /\ ok => Len(handles) < MaxLevelOpens
          /\ \E path \in LevelPaths : CallSetLogFile(path, ok)
    \/ CallClose
    \/ \E format \in LevelTemplates, level \in Levels, args \in LevelArgLists :
          /\ nLogs < MaxLevelLogs
          /\ CallLogMessage(format, level, args)

SpecLevels == Init /\ [][NextLevels]_vars

(* ------------------------------------------------------------------ *)
(* SpecFormat: templates with and without operands                     *)
(* ------------------------------------------------------------------ *)

\* a literal percent sign at the end, a verb, an escaped percent sign, two verbs
FormatTemplates ==
    {<<"started">>, <<"100", "%">>, <<"x=", "%d">>, <<"50", "%%", " of ", "%s", "\n">>}

FormatArgLists ==
    {<<>>, <<Arg("int", "42")>>, <<Arg("string", "timeout"), Arg("int", "7")>>}

FormatEnvs == {[exe |-> "go-build", wd |-> "ok"]}

NextFormat ==
    \/ \E level \in {DEBUG, ERROR} : CallSetConsoleLevel(level)
    \/ \E env \in FormatEnvs, ok \in BOOLEAN :
          /\ ok => Len(handles) < MaxFormatOpens
          /\ CallInitDefaultLogFile(env, ok)
    \/ \E format \in FormatTemplates, args \in FormatArgLists :
          /\ nLogs < MaxFormatLogs
          /\ CallLogMessage(format, SUCCESS, args)
    \/ \E format \in FormatTemplates, args \in FormatArgLists :
          /\ nLogs < MaxFormatLogs
          /\ CallError(format, args)

SpecFormat == Init /\ [][NextFormat]_vars

(* ------------------------------------------------------------------ *)
(* SpecShape: every level, named or not, and every wrapper             *)
(* ------------------------------------------------------------------ *)

\* logger.go:13  LogLevel is an int: the five named levels and one beyond them
ShapeLevels == Levels \cup {FAIL + 1}

ShapeTemplates == {<<"x=", "%d">>}
ShapeArgLists == {<<Arg("int", "42")>>}

NextShape ==
    \/ CallSetConsoleLevel(DEBUG)
    \/ \E env \in FormatEnvs, ok \in BOOLEAN :
          /\ ok => Len(handles) < MaxFormatOpens
          /\ CallSetupLogging(INFO, DEBUG, env, ok)
    \/ \E format \in ShapeTemplates, level \in ShapeLevels, args \in ShapeArgLists :
          /\ nLogs < MaxFormatLogs
          /\ CallLogMessage(format, level, args)
    \/ \E format \in ShapeTemplates, args \in ShapeArgLists :
          /\ nLogs < MaxFormatLogs
          /\ CallDebug(format, args)
    \/ \E format \in ShapeTemplates, args \in ShapeArgLists :
          /\ nLogs < MaxFormatLogs
          /\ CallInfo(format, args)
    \/ \E format \in ShapeTemplates, args \in ShapeArgLists :
          /\ nLogs < MaxFormatLogs
          /\ CallError(format, args)
    \/ \E format \in ShapeTemplates, args \in ShapeArgLists :
          /\ nLogs < MaxFormatLogs
          /\ CallSuccess(format, args)
    \/ \E format \in ShapeTemplates, args \in ShapeArgLists :
          /\ nLogs < MaxFormatLogs
          /\ CallFail(format, args)

SpecShape == Init /\ [][NextShape]_vars

(* ------------------------------------------------------------------ *)
(* SpecUnset: a program that never calls SetFileLevel or SetupLogging   *)
(* ------------------------------------------------------------------ *)

UnsetConsoleLevels == {INFO, FAIL}

NextUnset ==
    \/ \E level \in UnsetConsoleLevels : CallSetConsoleLevel(level)
    \/ \E ok \in BOOLEAN :
          /\ ok => Len(handles) < MaxLevelOpens
          /\ \E path \in UserPaths : CallSetLogFile(path, ok)
    \/ \E env \in FormatEnvs, ok \in BOOLEAN :
          /\ ok => Len(handles) < MaxLevelOpens
          /\ CallInitDefaultLogFile(env, ok)
    \/ CallClose
    \/ \E format \in LevelTemplates, level \in Levels, args \in LevelArgLists :
          /\ nLogs < MaxLevelLogs
          /\ CallLogMessage(format, level, args)

SpecUnset == Init /\ [][NextUnset]_vars

(* ------------------------------------------------------------------ *)
(* SpecClose: goroutines calling Close concurrently                    *)
(* closeOnce.Do(f), logger.go:93: load done; if it is unset lock the   *)
(* mutex, load done again, run f, store done, unlock.                  *)
(* ------------------------------------------------------------------ *)

Goto(g, label) == pc' = [pc EXCEPT ![g] = label]

\* the package's variables and the files, for the steps that touch none of them
program == <<fileLogger, consoleLogger, fileLevel, consoleLevel, logFile,
             handles, files, console, ret, panicked, nLogs, logpc>>

\* logger.go:92  goroutine g calls Close
CloseEnter(g) ==
    /\ pc[g] = "idle"
    /\ ~panicked
    /\ Goto(g, "load")
    /\ UNCHANGED <<program, closeOnce, onceLock>>

\* logger.go:93  Do's fast path: done is set, return at once
OnceLoad(g) ==
    /\ pc[g] = "load"
    /\ Goto(g, IF closeOnce THEN "returned" ELSE "lock")
    /\ UNCHANGED <<program, closeOnce, onceLock>>

\* a slow path that does not wait for the mutex
OnceLockNoMutex(g) ==
    /\ pc[g] = "lock"
    /\ onceLock' = g
    /\ Goto(g, "check")
    /\ UNCHANGED <<program, closeOnce>>

\* logger.go:93  Do's slow path: wait for the mutex and take it
OnceLock(g) ==
    /\ pc[g] = "lock"
    /\ onceLock = Nil
    /\ onceLock' = g
    /\ Goto(g, "check")
    /\ UNCHANGED <<program, closeOnce>>

\* logger.go:93  under the mutex: run the function only if done is still unset
OnceCheck(g) ==
    /\ pc[g] = "check"
    /\ Goto(g, IF closeOnce THEN "unlock" ELSE "run")
    /\ UNCHANGED <<program, closeOnce, onceLock>>

\* logger.go:94-96  the function: close logFile when it is not nil
OnceRun(g) ==
    /\ pc[g] = "run"
    /\ LET t == closeFunc(Cur) IN
          /\ handles' = t.handles
          /\ files' = t.files
    /\ Goto(g, "store")
    /\ UNCHANGED <<fileLogger, consoleLogger, fileLevel, consoleLevel, logFile,
                   console, ret, panicked, nLogs, closeOnce, onceLock, logpc>>

\* logger.go:93  the function has returned: store done
OnceStore(g) ==
    /\ pc[g] = "store"
    /\ closeOnce' = TRUE
    /\ Goto(g, "unlock")
    /\ UNCHANGED <<program, onceLock>>

\* logger.go:93,98  release the mutex and return from Close
OnceUnlock(g) ==
    /\ pc[g] = "unlock"
    /\ onceLock' = Nil
    /\ Goto(g, "returned")
    /\ UNCHANGED <<program, closeOnce>>

\* the single caller opens the file (or fails to) before the goroutines start;
\* then the goroutines run Close in any interleaving
NextClose ==
    \/ \E path \in UserPaths, ok \in BOOLEAN :
          /\ ok => Len(handles) < MaxOpens
          /\ CallSetLogFile(path, ok)
    \/ \E g \in Closers : CloseEnter(g)
    \/ \E g \in Closers : OnceLoad(g)
    \/ \E g \in Closers : OnceLock(g)
    \/ \E g \in Closers : OnceCheck(g)
    \/ \E g \in Closers : OnceRun(g)
    \/ \E g \in Closers : OnceStore(g)
    \/ \E g \in Closers : OnceUnlock(g)

SpecClose == Init /\ [][NextClose]_vars

(* ------------------------------------------------------------------ *)
(* SpecLog: goroutines calling LogMessage concurrently, configuration   *)
(* fixed. A call is two steps: fileLogger.Printf (logger.go:113) and    *)
(* consoleLogger.Printf (logger.go:130). Each Printf builds its line in *)
(* a buffer of its own and writes it in one Write under the logger's    *)
(* mutex, so a step appends one whole line.                             *)
(* ------------------------------------------------------------------ *)

\* the levels each goroutine logs at, in its call order
LogScript == <<INFO, FAIL>>

LogTemplate == <<"worker ", "%d", " call ", "%d">>

\* the operands of goroutine g's i-th call
LogArgs(g, i) == <<Arg("int", ToString(g)), Arg("int", ToString(i))>>

\* the call goroutine g is in, and its calls whose file and console steps are done
CallIndex(g) == (logpc[g] \div 2) + 1

FileDone(g) == (logpc[g] + 1) \div 2

ConsoleDone(g) == logpc[g] \div 2

NoLoggerStarted == \A g \in Loggers : logpc[g] = 0

\* a file step that gives up when another goroutine is inside a call
LogFileStepTryLock(g) ==
    /\ ~panicked
    /\ logpc[g] < 2 * Len(LogScript)
    /\ logpc[g] % 2 = 0
    /\ LET busy == \E h \in Loggers \ {g} : logpc[h] % 2 = 1
           message == renderMessage(LogTemplate, LogArgs(g, CallIndex(g)))
           t == IF busy THEN Cur ELSE logToFile(Cur, LogScript[CallIndex(g)], message)
       IN Returns(ret.op, t)
    /\ logpc' = [logpc EXCEPT ![g] = @ + 1]
    /\ UNCHANGED <<nLogs, pc, onceLock>>

\* logger.go:103-114  goroutine g renders its message and runs the file branch
LogFileStep(g) ==
    /\ ~panicked
    /\ logpc[g] < 2 * Len(LogScript)
    /\ logpc[g] % 2 = 0
    /\ LET message == renderMessage(LogTemplate, LogArgs(g, CallIndex(g)))
       IN Returns(ret.op, logToFile(Cur, LogScript[CallIndex(g)], message))
    /\ logpc' = [logpc EXCEPT ![g] = @ + 1]
    /\ UNCHANGED <<nLogs, pc, onceLock>>

\* logger.go:116-132  goroutine g runs the console branch and returns
LogConsoleStep(g) ==
    /\ ~panicked
    /\ logpc[g] % 2 = 1
    /\ LET message == renderMessage(LogTemplate, LogArgs(g, CallIndex(g)))
           t == logToConsole(Cur, LogScript[CallIndex(g)], message)
       IN Returns("LogMessage", [t EXCEPT !.err = FALSE])
    /\ logpc' = [logpc EXCEPT ![g] = @ + 1]
    /\ nLogs' = nLogs + 1
    /\ UNCHANGED <<pc, onceLock>>

LogConsoleLevels == {DEBUG, INFO}

LogPaths == {Path("logs", "app.log")}

\* the single caller configures the package before the goroutines start; then
\* the goroutines log in any interleaving
NextLog ==
    \/ \E level \in LogConsoleLevels :
          /\ NoLoggerStarted
          /\ consoleLogger = Nil
          /\ CallSetConsoleLevel(level)
    \/ \E path \in LogPaths, ok \in BOOLEAN :
          /\ NoLoggerStarted
          /\ logFile = Nil
          /\ CallSetLogFile(path, ok)
    \/ \E g \in Loggers : LogFileStep(g)
    \/ \E g \in Loggers : LogConsoleStep(g)

SpecLog == Init /\ [][NextLog]_vars

(* ------------------------------------------------------------------ *)
(* Properties                                                          *)
(* ------------------------------------------------------------------ *)

\* the file sink is usable: fileLogger is set and the handle it writes to is open
SinkOpen == fileLogger # Nil /\ handles[fileLogger].open

\* the path the file sink writes to
SinkPath == handles[fileLogger].path

OpenHandles == {h \in DOMAIN handles : handles[h].open}

\* the line a LogMessage call hands to each sink
FileLineOf(format, level, args) ==
    LoggerLine(fileText(level, renderMessage(format, args)))

ConsoleLineOf(format, level, args) ==
    LoggerLine(consoleText(level, renderMessage(format, args)))

\* C1: with the rank order DEBUG < INFO < ERROR < SUCCESS < FAIL, a LogMessage
\* call at level L writes one line to the console sink, when it is set, if and
\* only if L >= consoleLevel, and one line to the file sink, when it owns an open
\* handle, if and only if L >= fileLevel; otherwise the sink is left as it was.
\* Each decision reads the threshold of its own sink only.
C1_ThresholdFiltering ==
    [][ret'.op = "LogMessage" =>
       \A format \in LevelTemplates, L \in Levels, args \in LevelArgLists :
          CallLogMessage(format, L, args) =>
             /\ DEBUG < INFO /\ INFO < ERROR /\ ERROR < SUCCESS /\ SUCCESS < FAIL
             /\ consoleLogger # Nil =>
                   console' = IF L >= consoleLevel
                              THEN Append(console, ConsoleLineOf(format, L, args))
                              ELSE console
             /\ SinkOpen =>
                   files'[SinkPath].lines =
                       IF L >= fileLevel
                       THEN Append(files[SinkPath].lines, FileLineOf(format, L, args))
                       ELSE files[SinkPath].lines]_vars

\* a call passed the console threshold and was held back by the higher file
\* threshold, both sinks being ready
C1_Witness ==
    /\ ret.op = "LogMessage"
    /\ SinkOpen
    /\ consoleLogger # Nil
    /\ consoleLevel = INFO
    /\ fileLevel = SUCCESS
    /\ Len(console) = 1
    /\ files[SinkPath].lines = <<>>

\* C2: whatever number of Close calls was made, before or after a file was
\* opened, no call returned an error or panicked and no handle was closed more
\* than once.
C2_CloseIdempotent ==
    /\ ~panicked
    /\ ret.op = "Close" => ~ret.err
    /\ \A h \in DOMAIN handles : handles[h].closes <= 1

\* Close has just returned without closing the one file that logFile holds:
\* the once guard was spent by an earlier Close call, made before the file was
\* opened, and this is a later call, made after it
C2_Witness ==
    /\ ret.op = "Close"
    /\ ~ret.err
    /\ closeOnce
    /\ Len(handles) = 1
    /\ logFile = 1
    /\ handles[1].open

\* C3: at most one opened and not yet closed handle exists at any time.
C3_AtMostOneOpenHandle == Cardinality(OpenHandles) <= 1

\* C4: once two files were opened one after the other at different paths P1 and
\* P2, a LogMessage call appends nothing to P1 (nor to any path but P2), and a
\* call that passes the file threshold appends its line to P2 while P2's handle
\* is open.
C4_OnlySecondFile ==
    [][ret'.op = "LogMessage" =>
       \A format \in LifeTemplates, L \in LifeLogLevels, args \in LifeArgLists :
          (/\ CallLogMessage(format, L, args)
           /\ Len(handles) >= 2
           /\ handles[Len(handles) - 1].path # handles[Len(handles)].path)
          => LET P2 == handles[Len(handles)].path IN
             /\ \A p \in AllPaths \ {P2} : files'[p] = files[p]
             /\ (L >= fileLevel /\ handles[Len(handles)].open) =>
                   files'[P2].lines = Append(files[P2].lines, FileLineOf(format, L, args))]_vars

\* two files were opened at different paths and a later line went to the second
C4_Witness ==
    /\ ret.op = "LogMessage"
    /\ Len(handles) = 2
    /\ handles[1].path # handles[2].path
    /\ files[handles[1].path].lines = <<>>
    /\ Len(files[handles[2].path].lines) = 1

\* C5: with both sinks ready, a LogMessage call at a level at or above both
\* thresholds appends exactly its own line at the end of the console output and
\* at the end of the sink's file, and touches no other file; so N calls leave N
\* lines in each sink in call order.
C5_RoundTrip ==
    [][ret'.op = "LogMessage" =>
       \A format \in LifeTemplates, L \in LifeLogLevels, args \in LifeArgLists :
          (/\ CallLogMessage(format, L, args)
           /\ consoleLogger # Nil
           /\ SinkOpen
           /\ L >= consoleLevel
           /\ L >= fileLevel)
          => /\ console' = Append(console, ConsoleLineOf(format, L, args))
             /\ files'[SinkPath].lines =
                   Append(files[SinkPath].lines, FileLineOf(format, L, args))
             /\ \A p \in AllPaths \ {SinkPath} : files'[p] = files[p]]_vars

\* two calls, INFO then FAIL, left their two lines in that order in both sinks
C5_Witness ==
    /\ ret.op = "LogMessage"
    /\ nLogs = 2
    /\ SinkOpen
    /\ \E format \in LifeTemplates, args \in LifeArgLists :
          /\ console = <<ConsoleLineOf(format, INFO, args),
                         ConsoleLineOf(format, FAIL, args)>>
          /\ files[SinkPath].lines = <<FileLineOf(format, INFO, args),
                                       FileLineOf(format, FAIL, args)>>

\* C6: every step leaves each file in existence and its former lines as a
\* prefix of its lines.
C6_AppendOnly ==
    [][\A p \in AllPaths :
          /\ files[p].exists => files'[p].exists
          /\ IsPrefix(files[p].lines, files'[p].lines)]_vars

\* a file that already held a line was opened again and still holds it
C6_Witness ==
    /\ ret.op = "SetLogFile"
    /\ ~ret.err
    /\ Len(handles) = 2
    /\ handles[1].path = handles[2].path
    /\ Len(files[handles[2].path].lines) = 1

\* C7: a SetLogFile call that fails to open its path leaves the file sink and
\* the handle that Close releases as they were.
C7_FailedSetLogFileKeepsState ==
    [][ret'.op = "SetLogFile" =>
       \A path \in UserPaths :
          CallSetLogFile(path, FALSE) =>
             /\ ret'.err
             /\ fileLogger' = fileLogger
             /\ logFile' = logFile]_vars

\* C8: SetupLogging(c, f) ends in the state, and returns the result, of
\* SetConsoleLevel(c); SetFileLevel(f); InitDefaultLogFile() run in that order
\* from the same state; both thresholds and the console sink are set whether
\* or not the default file could be opened.
C8_SetupLoggingIsComposition ==
    [][ret'.op = "SetupLogging" =>
       \A c \in LifeConsoleLevels, f \in LifeFileLevels, env \in LifeEnvs, ok \in BOOLEAN :
          CallSetupLogging(c, f, env, ok) =>
             /\ Returns("SetupLogging",
                        InitDefaultLogFile(SetFileLevel(SetConsoleLevel(Cur, c), f), env, ok))
             /\ ret'.err = InitDefaultLogFile(Cur, env, ok).err
             /\ consoleLevel' = c
             /\ fileLevel' = f
             /\ consoleLogger' = Stdout]_vars

\* SetupLogging returned an error, no file was ever opened, and the thresholds
\* and the console sink are set
C8_Witness ==
    /\ ret.op = "SetupLogging"
    /\ ret.err
    /\ Len(handles) = 0
    /\ consoleLevel = INFO
    /\ fileLevel = FAIL
    /\ consoleLogger = Stdout

\* C9: while no file was ever opened, a LogMessage call at any level neither
\* panics nor returns an error, changes no file, and leaves the console output
\* it would leave with a file sink set; and at any time a sink whose threshold
\* the level does not meet is left as it was.
C9_SilentSkip ==
    [][ret'.op = "LogMessage" =>
       \A format \in LevelTemplates, L \in Levels, args \in LevelArgLists :
          CallLogMessage(format, L, args) =>
             /\ Len(handles) = 0 =>
                   /\ ~panicked'
                   /\ ~ret'.err
                   /\ files' = files
                   /\ \A path \in LevelPaths :
                         console' = LogMessage(SetLogFile(Cur, path, TRUE),
                                               format, L, args).console
             /\ ~(L >= fileLevel) => files' = files
             /\ ~(L >= consoleLevel) => console' = console]_vars

\* a call was made with no file ever opened: the console has its line, no file
\* exists
C9_Witness ==
    /\ ret.op = "LogMessage"
    /\ Len(handles) = 0
    /\ Len(console) = 1
    /\ \A p \in AllPaths : files[p] = NoFile

\* C10: with a file open, in every interleaving of concurrent Close calls no
\* handle is closed more than once, and when any Close call has returned the
\* handle in logFile has been closed exactly once.
C10_ConcurrentCloseOnce ==
    /\ \A h \in DOMAIN handles : handles[h].closes <= 1
    /\ \A g \in Closers :
          (pc[g] = "returned" /\ logFile # Nil) =>
             /\ ~handles[logFile].open
             /\ handles[logFile].closes = 1

\* every goroutine has called Close and returned, and the open file was closed
\* once
C10_Witness ==
    /\ logFile # Nil
    /\ \A g \in Closers : pc[g] = "returned"
    /\ handles[logFile].closes = 1

\* C11: a logging call with no operand hands the template itself, token for
\* token, to each sink, whatever the template holds, and does not panic; a
\* call with at least one operand hands over fmt.Sprintf's rendering of it.
C11_NoArgsVerbatim ==
    [][ret'.op \in {"LogMessage", "Error"} =>
       \A format \in FormatTemplates, args \in FormatArgLists, L \in {ERROR, SUCCESS} :
          (CallLogMessage(format, L, args) \/ (L = ERROR /\ CallError(format, args))) =>
             LET message == IF args = <<>> THEN format ELSE Sprintf(format, args) IN
             /\ ~panicked'
             /\ (consoleLogger # Nil /\ L >= consoleLevel) =>
                   console' = Append(console, LoggerLine(consoleText(L, message)))
             /\ SinkOpen =>
                   files'[SinkPath].lines =
                       Append(files[SinkPath].lines, LoggerLine(fileText(L, message)))]_vars

\* Error("100%") with no operand reached both sinks as written
C11_Witness ==
    /\ ret.op = "Error"
    /\ SinkOpen
    /\ console = <<LoggerLine(<<Red, "| ", "ERROR", " |", Reset, " ", "100", "%">>)>>
    /\ files[SinkPath].lines = <<LoggerLine(<<"| ", "ERROR", " | ", "100", "%">>)>>

\* C12: a call at level L, made through LogMessage or through L's wrapper,
\* appends to the file (handle open, threshold met) the timestamp followed by
\* "| LEVEL | message" with no colour code in it, and to the console (sink set,
\* threshold met) the timestamp followed by "<colour>| LEVEL |<reset> message",
\* LEVEL being L's name (UNKNOWN for a value that is none of the five) and the
\* colour yellow for DEBUG, blue for INFO, red for ERROR and FAIL, green for
\* SUCCESS and yellow for any other value.
C12_LineShape ==
    [][ret'.op \in {"LogMessage", "Debug", "Info", "Error", "Success", "Fail"} =>
       \A format \in ShapeTemplates, args \in ShapeArgLists, L \in ShapeLevels :
          (\/ CallLogMessage(format, L, args)
           \/ L = DEBUG /\ CallDebug(format, args)
           \/ L = INFO /\ CallInfo(format, args)
           \/ L = ERROR /\ CallError(format, args)
           \/ L = SUCCESS /\ CallSuccess(format, args)
           \/ L = FAIL /\ CallFail(format, args)) =>
             LET name == CASE L = 0 -> "DEBUG" [] L = 1 -> "INFO" [] L = 2 -> "ERROR"
                           [] L = 3 -> "SUCCESS" [] L = 4 -> "FAIL" [] OTHER -> "UNKNOWN"
                 colour == CASE L = 0 -> "ESC[33m" [] L = 1 -> "ESC[34m" [] L = 2 -> "ESC[31m"
                             [] L = 3 -> "ESC[32m" [] L = 4 -> "ESC[31m" [] OTHER -> "ESC[33m"
                 message == renderMessage(format, args)
                 fileLine == <<"<timestamp> ", "| ", name, " | ">> \o message \o <<"\n">>
             IN
             /\ (SinkOpen /\ L >= fileLevel) =>
                   /\ files'[SinkPath].lines = Append(files[SinkPath].lines, fileLine)
                   /\ \A i \in DOMAIN fileLine :
                         fileLine[i] \notin {Reset, Red, Green, Yellow, Blue}
             /\ (consoleLogger # Nil /\ L >= consoleLevel) =>
                   console' = Append(console,
                       <<"<timestamp> ", colour, "| ", name, " |", "ESC[0m", " ">>
                           \o message \o <<"\n">>)]_vars

\* SetupLogging(INFO, DEBUG) then Info("x=%d", 42): "| INFO | x=42" in the file,
\* the same in blue with the reset code on the console
C12_Witness ==
    /\ ret.op = "Info"
    /\ consoleLevel = INFO
    /\ fileLevel = DEBUG
    /\ SinkOpen
    /\ files[SinkPath].lines = <<<<"<timestamp> ", "| ", "INFO", " | ", "x=", "42", "\n">>>>
    /\ console = <<<<"<timestamp> ", "ESC[34m", "| ", "INFO", " |", "ESC[0m", " ",
                     "x=", "42", "\n">>>>

\* C13: when a Close call has returned, the handle the package holds in logFile
\* is not open.
C13_CloseReleasesHandle ==
    ret.op = "Close" => (logFile # Nil => ~handles[logFile].open)

\* the functions that configure the package
ConfigOps ==
    {"SetConsoleLevel", "SetFileLevel", "SetLogFile", "InitDefaultLogFile", "SetupLogging"}

\* C14 as stated: a LogMessage call made right after any configuration function,
\* at a level at or above the console threshold, appends its line to the console.
C14_ConsoleReadyAfterAnyConfig ==
    [][(ret.op \in ConfigOps /\ ret'.op = "LogMessage") =>
       \A format \in LifeTemplates, L \in LifeLogLevels, args \in LifeArgLists :
          (CallLogMessage(format, L, args) /\ L >= consoleLevel) =>
             console' = Append(console, ConsoleLineOf(format, L, args))]_vars

\* C14 amended: SetConsoleLevel and SetupLogging leave the console sink set; no
\* function unsets it; while it is set a LogMessage call at a level at or above
\* the console threshold appends its line to the console, and while it is not
\* set (only SetFileLevel, SetLogFile or InitDefaultLogFile were called) a
\* LogMessage call writes nothing to the console.
C14_ConsoleReadyAfterSetConsoleLevel ==
    [][/\ ret'.op \in {"SetConsoleLevel", "SetupLogging"} => consoleLogger' = Stdout
       /\ ret'.op \notin {"SetConsoleLevel", "SetupLogging"} => consoleLogger' = consoleLogger
       /\ ret'.op = "LogMessage" =>
             \A format \in LifeTemplates, L \in LifeLogLevels, args \in LifeArgLists :
                CallLogMessage(format, L, args) =>
                   console' = IF consoleLogger # Nil /\ L >= consoleLevel
                              THEN Append(console, ConsoleLineOf(format, L, args))
                              ELSE console]_vars

\* SetConsoleLevel was the only configuration and the call's line is on the
\* console
C14_Witness ==
    /\ ret.op = "LogMessage"
    /\ consoleLogger = Stdout
    /\ consoleLevel = INFO
    /\ fileLevel = DEBUG
    /\ handles = <<>>
    /\ Len(console) = 1

\* C15: a SetFileLevel call changes the file threshold and nothing else; a
\* SetConsoleLevel call changes the console threshold, sets the console sink to
\* standard output on every call, and nothing else; the file sink, the owned
\* handle, the close latch, the files and the console output are untouched by
\* both.
C15_ThresholdSetterFrame ==
    [][/\ ret'.op = "SetFileLevel" =>
             /\ fileLevel' \in Levels
             /\ UNCHANGED <<consoleLevel, consoleLogger, fileLogger, logFile,
                            closeOnce, onceLock, handles, files, console, panicked>>
       /\ ret'.op = "SetConsoleLevel" =>
             /\ consoleLevel' \in Levels
             /\ consoleLogger' = Stdout
             /\ UNCHANGED <<fileLevel, fileLogger, logFile,
                            closeOnce, onceLock, handles, files, console, panicked>>]_vars

\* SetConsoleLevel has just returned on a package whose file threshold was
\* raised, whose file sink is set and whose close latch is spent
C15_Witness ==
    /\ ret.op = "SetConsoleLevel"
    /\ consoleLogger = Stdout
    /\ consoleLevel = ERROR
    /\ fileLevel = SUCCESS
    /\ fileLogger # Nil
    /\ logFile # Nil
    /\ closeOnce

\* the file sink is set and writes through a handle that has been closed
SinkClosed ==
    fileLogger # Nil /\ ~handles[fileLogger].open

\* C16 as stated: a LogMessage call made while the file sink's handle is closed
\* returns without error or panic, leaves every file as it was, and appends its
\* line to the console whenever its level is at or above the console threshold.
C16_LogAfterCloseAlwaysConsole ==
    [][(SinkClosed /\ ret'.op = "LogMessage") =>
       \A format \in LevelTemplates, L \in Levels, args \in LevelArgLists :
          CallLogMessage(format, L, args) =>
             /\ ~ret'.err
             /\ ~panicked'
             /\ files' = files
             /\ L >= consoleLevel =>
                   console' = Append(console, ConsoleLineOf(format, L, args))]_vars

\* C16 amended: a LogMessage call made while the file sink's handle is closed
\* returns without error or panic, leaves every file as it was, and appends its
\* line to the console exactly when the console sink is set and its level is at
\* or above the console threshold.
C16_LogAfterCloseConsoleIfSet ==
    [][(SinkClosed /\ ret'.op = "LogMessage") =>
       \A format \in LevelTemplates, L \in Levels, args \in LevelArgLists :
          CallLogMessage(format, L, args) =>
             /\ ~ret'.err
             /\ ~panicked'
             /\ files' = files
             /\ console' = IF consoleLogger # Nil /\ L >= consoleLevel
                           THEN Append(console, ConsoleLineOf(format, L, args))
                           ELSE console]_vars

\* a call logged after Close: the file was created and is still empty, the line
\* is on the console
C16_Witness ==
    /\ ret.op = "LogMessage"
    /\ closeOnce
    /\ SinkClosed
    /\ handles[fileLogger].closes = 1
    /\ files[handles[fileLogger].path].exists
    /\ files[handles[fileLogger].path].lines = <<>>
    /\ fileLevel = DEBUG
    /\ Len(console) = 1

\* C17: in a program that never calls SetFileLevel the file threshold is DEBUG,
\* the lowest rank, and while the console sink is unset (SetConsoleLevel was
\* never called) the console threshold is DEBUG too; so a LogMessage call at any
\* of the five levels, made while the file sink owns an open handle, appends its
\* line to the file, whatever the console threshold is.
C17_UnsetThresholdIsDebug ==
    [][/\ fileLevel' = DEBUG
       /\ consoleLogger' = Nil => consoleLevel' = DEBUG
       /\ \A L \in Levels : DEBUG <= L
       /\ ret'.op = "LogMessage" =>
             \A format \in LevelTemplates, L \in Levels, args \in LevelArgLists :
                (CallLogMessage(format, L, args) /\ SinkOpen) =>
                   files'[SinkPath].lines =
                       Append(files[SinkPath].lines, FileLineOf(format, L, args))]_vars

\* only SetLogFile configured the package and a DEBUG message is in the file
C17_Witness ==
    /\ ret.op = "LogMessage"
    /\ consoleLogger = Nil
    /\ SinkOpen
    /\ files[SinkPath].lines = <<FileLineOf(<<"started">>, DEBUG, <<>>)>>

\* the lines goroutine g has produced for each sink so far
FileLinesOf(g) ==
    [i \in 1 .. FileDone(g) |-> FileLineOf(LogTemplate, LogScript[i], LogArgs(g, i))]

ConsoleLinesOf(g) ==
    [i \in 1 .. ConsoleDone(g) |-> ConsoleLineOf(LogTemplate, LogScript[i], LogArgs(g, i))]

\* the lines of seq that goroutine g's script produces, in the order of seq
FileLinesFrom(seq, g) ==
    SelectSeq(seq, LAMBDA l : \E i \in 1 .. Len(LogScript) :
                                 l = FileLineOf(LogTemplate, LogScript[i], LogArgs(g, i)))

ConsoleLinesFrom(seq, g) ==
    SelectSeq(seq, LAMBDA l : \E i \in 1 .. Len(LogScript) :
                                 l = ConsoleLineOf(LogTemplate, LogScript[i], LogArgs(g, i)))

RECURSIVE SumOver(_, _)
SumOver(f, S) ==
    IF S = {} THEN 0
    ELSE LET g == CHOOSE x \in S : TRUE IN f[g] + SumOver(f, S \ {g})

\* C18: with the configuration fixed and both sinks set, at every point of every
\* interleaving of the goroutines' LogMessage calls, each sink holds, for each
\* goroutine, exactly the lines of the calls whose step for that sink is done,
\* in that goroutine's call order, and no other line: none lost, none
\* duplicated. Lines of different goroutines may come in any order.
C18_ConcurrentLogging ==
    /\ SinkOpen =>
          /\ \A g \in Loggers : FileLinesFrom(files[SinkPath].lines, g) = FileLinesOf(g)
          /\ Len(files[SinkPath].lines) = SumOver([g \in Loggers |-> FileDone(g)], Loggers)
    /\ consoleLogger # Nil =>
          /\ \A g \in Loggers : ConsoleLinesFrom(console, g) = ConsoleLinesOf(g)
          /\ Len(console) = SumOver([g \in Loggers |-> ConsoleDone(g)], Loggers)

\* every goroutine has finished, both sinks hold all the lines, and the two
\* sinks start with lines of different goroutines
C18_Witness ==
    /\ \A g \in Loggers : logpc[g] = 2 * Len(LogScript)
    /\ SinkOpen
    /\ consoleLogger # Nil
    /\ Len(files[SinkPath].lines) = MaxLoggers * Len(LogScript)
    /\ Len(console) = MaxLoggers * Len(LogScript)
    /\ files[SinkPath].lines[1] = FileLineOf(LogTemplate, LogScript[1], LogArgs(2, 1))
    /\ console[1] = ConsoleLineOf(LogTemplate, LogScript[1], LogArgs(1, 1))

====
